---- MODULE Spec2Model ----
(***************************************************************************)
(* A model of dupefinder (src/run.py): the sqlite store built by           *)
(* init_database, the scan producer scandir, the ingest loop loaddirs and  *)
(* the two queries finddupefiles and finddupedirs.                         *)
(*                                                                         *)
(* Text values (names, paths) are sequences of one-character strings, so   *)
(* that concatenation, REPLACE and LIKE are computed and not assumed.      *)
(* Integer columns use 0 for SQL NULL (AUTOINCREMENT ids start at 1);      *)
(* text columns and Python's None use the value None.                      *)
(***************************************************************************)
EXTENDS Integers, Sequences, FiniteSets, TLC

\* ------------------------------------------------------------------ bounds
MaxScans == 2      \* scans run in one behaviour
MaxEdits == 1      \* file writes/removals made to the tree between scans
MaxClock == 2      \* seconds the CURRENT_TIMESTAMP clock can show
NHash    == 2      \* distinct file contents (digests 1..NHash)
DailyScans == 3    \* scans run in one behaviour of SpecDaily
DailyEdits == 2    \* changes made to the tree in one behaviour of SpecDaily

\* ------------------------------------------------------------------ values
NULL == 0
None == <<"None">>
EmptyText == << >>
Slash == <<"/">>

\* the directories of the scanned tree: /a, /a/b and /c
PA  == <<"/", "a">>
PAB == <<"/", "a", "/", "b">>
PC  == <<"/", "c">>
NB  == <<"b">>
NF  == <<"f">>
NG  == <<"g">>

Min(S) == CHOOSE x \in S : \A y \in S : x <= y
Max(S) == CHOOSE x \in S : \A y \in S : x >= y

\* ------------------------------------------------------------------ sqlite text functions
\* REPLACE(s, x, y): left to right, non-overlapping occurrences of x
RECURSIVE REPLACE(_, _, _)
REPLACE(s, x, y) ==
    IF Len(s) < Len(x) THEN s
    ELSE IF SubSeq(s, 1, Len(x)) = x
         THEN y \o REPLACE(SubSeq(s, Len(x) + 1, Len(s)), x, y)
         ELSE <<Head(s)>> \o REPLACE(Tail(s), x, y)

\* LIKE folds the case of ASCII letters
Lower(c) == IF c = "A" THEN "a" ELSE IF c = "B" THEN "b" ELSE IF c = "C" THEN "c" ELSE c

\* s LIKE 'p%' for a pattern p without wildcard characters
LikePrefix(s, p) ==
    /\ s # None
    /\ Len(s) >= Len(p)
    /\ \A i \in 1..Len(p) : Lower(s[i]) = Lower(p[i])

\* ------------------------------------------------------------------ dirs table and fulltree view
RECURSIVE SortById(_)
SortById(S) ==
    IF S = {} THEN << >>
    ELSE LET m == CHOOSE r \in S : \A o \in S : r.id <= o.id
         IN  <<m>> \o SortById(S \ {m})

\* the rows the recursive step of dirpath adds for one dequeued row r
ChildRows(D, r) ==
    LET kids == SortById({B \in D : B.parent = r.id})
    IN  [i \in 1..Len(kids) |->
            [id |-> kids[i].id,
             path |-> REPLACE(r.path \o Slash \o kids[i].name, <<"/", "/">>, Slash)]]

RECURSIVE ChildLevel(_, _)
ChildLevel(D, level) ==
    IF level = << >> THEN << >>
    ELSE ChildRows(D, Head(level)) \o ChildLevel(D, Tail(level))

\* the recursive CTE dirpath: its queue is first-in first-out, so rows come
\* out level by level
RECURSIVE dirpath(_, _)
dirpath(D, level) ==
    IF level = << >> THEN << >>
    ELSE level \o dirpath(D, ChildLevel(D, level))

\* the view fulltree, as the sequence of (id, path) rows it yields
fulltree(D) ==
    LET roots == SortById({A \in D : A.parent = NULL})
    IN  dirpath(D, [i \in 1..Len(roots) |-> [id |-> roots[i].id, path |-> roots[i].name]])

\* (SELECT id FROM fulltree WHERE path=? LIMIT 1)
SelectIdByPath(D, p) ==
    LET t == fulltree(D)
        hits == {i \in 1..Len(t) : t[i].path = p}
    IN  IF p = None \/ hits = {} THEN NULL ELSE t[Min(hits)].id

\* the path fulltree gives a directory id (None for a NULL parent: the LEFT JOIN finds no row)
PathIn(t, id) ==
    LET hits == {i \in 1..Len(t) : t[i].id = id}
    IN  IF hits = {} THEN None ELSE t[Min(hits)].path

PathOfId(D, id) == PathIn(fulltree(D), id)

\* ------------------------------------------------------------------ the scanned tree
\* a file slot is <<directory path, file name>>; fs maps a slot to the digest of
\* the file's content, 0 when the file does not exist
AllSlots == {<<PA, NF>>, <<PA, NG>>, <<PAB, NF>>, <<PC, NF>>}

SubDirNames(d) == IF d = PA THEN <<NB>> ELSE << >>
FileNamesOf(d, fs) ==
    SelectSeq(<<NF, NG>>, LAMBDA n : <<d, n>> \in DOMAIN fs /\ fs[<<d, n>>] # 0)

PathJoin(p, n) == p \o Slash \o n

\* exclusions(patterns): the predicate keeps the paths no pattern matches
exclusions(patterns, p) == p \notin patterns

RECURSIVE ConcatAll(_)
ConcatAll(ss) == IF ss = << >> THEN << >> ELSE Head(ss) \o ConcatAll(Tail(ss))

\* one iteration of the os.walk loop of scandir for directory root, followed
\* by the iterations for the directories below it
RECURSIVE walk(_, _, _)
walk(root, exclude, fs) ==
    LET files  == FileNamesOf(root, fs)
        subs   == SubDirNames(root)
        _files == SelectSeq(files, LAMBDA n : exclusions(exclude, PathJoin(root, n)))
        _dirs  == SelectSeq(subs, LAMBDA n : exclusions(exclude, PathJoin(root, n)))
        descend == IF _files = << >> /\ _dirs = << >> THEN << >> ELSE subs
    IN  [i \in 1..Len(_files) |->
            [is_dir |-> FALSE, fpath |-> _files[i], parent |-> root,
             csum |-> fs[<<root, _files[i]>>]]]
        \o [i \in 1..Len(_dirs) |->
            [is_dir |-> TRUE, fpath |-> _dirs[i], parent |-> root, csum |-> NULL]]
        \o ConcatAll([i \in 1..Len(descend) |-> walk(PathJoin(root, descend[i]), exclude, fs)])

scandir(exclude, dirpaths, fs) ==
    << [is_dir |-> TRUE, fpath |-> EmptyText, parent |-> None, csum |-> NULL] >>
    \o ConcatAll([i \in 1..Len(dirpaths) |->
            << [is_dir |-> TRUE, fpath |-> dirpaths[i], parent |-> EmptyText, csum |-> NULL] >>
            \o walk(dirpaths[i], exclude, fs)])

\* ------------------------------------------------------------------ loaddirs
\* INSERT OR IGNORE INTO dirs (name, parent) VALUES (?, (SELECT id FROM fulltree ...)).
\* c_dirpath UNIQUE (name, parent): sqlite treats NULLs as distinct, so a row
\* with a NULL parent never conflicts.  AUTOINCREMENT hands out the next id of
\* sqlite_sequence to every attempted insert, ignored or not.
InsertDir(db, t) ==
    LET parent == SelectIdByPath(db.dirs, t.parent)
        id == db.dseq + 1
        conflict == \E r \in db.dirs :
                        r.name = t.fpath /\ parent # NULL /\ r.parent = parent
    IN  [db EXCEPT !.dseq = id,
                   !.dirs = IF conflict THEN @
                            ELSE @ \cup {[id |-> id, name |-> t.fpath, parent |-> parent]}]

\* INSERT OR IGNORE INTO files (name, parent, checksum) VALUES (...), with
\* c_fileversion UNIQUE (name, parent, checksum) and ts DEFAULT CURRENT_TIMESTAMP
InsertFile(db, t, ts) ==
    LET parent == SelectIdByPath(db.dirs, t.parent)
        id == db.fseq + 1
        conflict == \E r \in db.files :
                        /\ r.name = t.fpath
                        /\ parent # NULL /\ r.parent = parent
                        /\ r.checksum = t.csum
    IN  [db EXCEPT !.fseq = id,
                   !.files = IF conflict THEN @
                             ELSE @ \cup {[id |-> id, name |-> t.fpath, parent |-> parent,
                                           checksum |-> t.csum, ts |-> ts]}]

\* the body of the for loop of loaddirs for one tuple
IngestTuple(db, t, ts) == IF t.is_dir THEN InsertDir(db, t) ELSE InsertFile(db, t, ts)

\* the whole for loop of loaddirs over the tuples paths
RECURSIVE IngestAll(_, _, _)
IngestAll(db, paths, ts) ==
    IF paths = << >> THEN db
    ELSE IngestAll(IngestTuple(db, Head(paths), ts), Tail(paths), ts)

\* ------------------------------------------------------------------ views and queries
\* one element of each set of the family SS, in every way
RECURSIVE PickOne(_)
PickOne(SS) ==
    IF SS = {} THEN {{}}
    ELSE LET S == CHOOSE x \in SS : TRUE
         IN  {rest \cup {r} : r \in S, rest \in PickOne(SS \ {S})}

\* The rows the view latest_files may show for the group (name, parent) = g.
\* MAX(f.ts) makes the bare columns b.id, b.checksum come from a joined row whose
\* f.ts is the maximum; b is any version with the same name, parent and ts, and
\* which one sqlite takes is not defined when several share that ts.  USING
\* compares parent with =, so a NULL parent joins nothing and b is all NULL.
LatestRows(t, F, g) ==
    LET vs  == {f \in F : f.name = g[1] /\ f.parent = g[2]}
        m   == Max({f.ts : f \in vs})
    IN  IF g[2] = NULL
        THEN {[name |-> g[1], parent |-> NULL, ts |-> m, id |-> NULL, checksum |-> NULL,
               path |-> None]}
        ELSE {[name |-> g[1], parent |-> g[2], ts |-> m, id |-> b.id,
               checksum |-> b.checksum, path |-> PathIn(t, g[2])] :
                  b \in {f \in vs : f.ts = m}}

\* the view latest_files: every content it may have (one row per GROUP BY group)
latest_files(D, F) ==
    LET t == fulltree(D)
    IN  PickOne({LatestRows(t, F, g) : g \in {<<f.name, f.parent>> : f \in F}})

\* the query of finddupefiles over the content lf of latest_files.
\* dupe_csum counts COUNT(id), which skips NULL ids; parentpath is None or a
\* directory, to which the code appends os.sep before the LIKE.
finddupefiles(lf, D, parentpath) ==
    LET t == fulltree(D)
        dupe_csum == {c \in {r.checksum : r \in lf} :
                        Cardinality({r \in lf : r.checksum = c /\ r.id # NULL}) > 1}
        joined == {a \in lf : a.checksum # NULL /\ a.checksum \in dupe_csum}
        kept == IF parentpath = None THEN joined
                ELSE {a \in joined : LikePrefix(a.path, parentpath \o Slash)}
    IN  {[id |-> a.id,
          path |-> LET b == PathIn(t, a.parent)
                   IN  IF b = None THEN None ELSE b \o Slash \o a.name,
          ts |-> a.ts,
          checksum |-> a.checksum] : a \in kept}

\* the view dupe_files: here dupe_csum counts COUNT(name), so a group of NULL
\* checksums can pass HAVING, and its LEFT JOIN then yields one all-NULL row
dupe_files(lf) ==
    LET dupe_csum == {c \in {r.checksum : r \in lf} :
                        Cardinality({r \in lf : r.checksum = c}) > 1}
    IN  {[id |-> a.id, parent |-> a.parent, ts |-> a.ts, checksum |-> a.checksum,
          name |-> a.name] : a \in {r \in lf : r.checksum # NULL /\ r.checksum \in dupe_csum}}
        \cup (IF NULL \in dupe_csum
              THEN {[id |-> NULL, parent |-> NULL, ts |-> NULL, checksum |-> NULL, name |-> None]}
              ELSE {})

\* scores are fractions <<numerator, denominator>>, compared by cross-multiplication
RatGT(x, y) == x[1] * y[2] > y[1] * x[2]
RatMax(x, y) == IF RatGT(y, x) THEN y ELSE x

\* the CTE matches of parent_dir_match_score
matches(lf) ==
    LET df == dupe_files(lf)
    IN  {[id1 |-> p1.id, id2 |-> p2.id, p1 |-> p1.parent, p2 |-> p2.parent] :
            <<p1, p2>> \in {pr \in df \X df :
                /\ pr[1].checksum # NULL /\ pr[1].checksum = pr[2].checksum
                /\ pr[1].name = pr[2].name
                /\ pr[1].parent # NULL /\ pr[2].parent # NULL
                /\ pr[1].parent # pr[2].parent
                /\ pr[1].parent < pr[2].parent}}

\* the view parent_dir_match_score: matching_dirs with mscore.  p1 and p2 are
\* the GROUP BY key; they stand for the identity of the row.
parent_dir_match_score(lf, D) ==
    LET m == matches(lf)
        t == fulltree(D)
    IN  {LET mc == Cardinality({x \in m : x.p1 = g[1] /\ x.p2 = g[2]})
             t1 == Cardinality({r \in lf : r.parent = g[1]})
             t2 == Cardinality({r \in lf : r.parent = g[2]})
         IN  [p1 |-> g[1], p2 |-> g[2],
              path1 |-> PathIn(t, g[1]), path2 |-> PathIn(t, g[2]),
              matchount |-> mc, p1total |-> t1, p2total |-> t2,
              mscore |-> RatMax(<<mc, t1>>, <<mc, t2>>)] :
            g \in {<<x.p1, x.p2>> : x \in {y \in m : PathIn(t, y.p1) # None
                                                     /\ PathIn(t, y.p2) # None}}}

\* finddupedirs with the threshold test written >= instead of >
finddupedirs_ge(lf, D, similarity) ==
    {r \in parent_dir_match_score(lf, D) : ~RatGT(similarity, r.mscore)}

\* SELECT * FROM parent_dir_match_score WHERE mscore > ? (the parentpath
\* argument of finddupedirs is computed and never used)
finddupedirs(lf, D, similarity) ==
    {r \in parent_dir_match_score(lf, D) : RatGT(r.mscore, similarity)}

\* ------------------------------------------------------------------ state
VARIABLES
    fs,       \* the scanned tree: slot -> digest, 0 for a missing file
    now,      \* the second CURRENT_TIMESTAMP shows
    db,       \* the store as the loaddirs connection sees it: dirs, files, sqlite_sequence
    cdirs,    \* the committed dirs table, as any other connection sees it
    cfiles,   \* the committed files table
    pc,       \* "idle", or "load" while loaddirs runs its for loop
    paths,    \* the tuples scandir has still to yield to loaddirs
    scans,    \* scans started so far
    edits,    \* changes made to the tree so far
    cur,      \* history: arguments and tree of the current or latest scan
    prev,     \* history: arguments and tree of the scan before it
    db0,      \* history: the store when the current or latest scan began
    seen,     \* history: per (name, parent id), the digest the latest scan to observe it saw
    q         \* the query in progress and the rows it fetched, NoQuery when none is

vars == <<fs, now, db, cdirs, cfiles, pc, paths, scans, edits, cur, prev, db0, seen, q>>

NoScan == [roots |-> << >>, exclude |-> {}, fs |-> << >>]
NoQuery == [kind |-> "none", arg |-> NULL, rows |-> {}]

\* the command lines tried: scan /a; scan /a /c; scan /a /a/b
RootChoices == {<<PA>>, <<PA, PC>>, <<PA, PAB>>}
\* -x patterns, by the paths they match: none, or the directory /a/b
ExcludeChoices == {{}, {PAB}}
\* dupes [dir]: no directory, /a, /c, /A
PrefixChoices == {None, PA, PC, <<"/", "A">>}
\* similarity thresholds 0, 1/2 and 1
ScoreChoices == {<<0, 1>>, <<1, 2>>, <<1, 1>>}

EmptyDb == [dirs |-> {}, files |-> {}, dseq |-> 0, fseq |-> 0]

\* the store is new and every file of slots exists, with any content
InitWith(slots) ==
    /\ fs \in [slots -> 1..NHash]
    /\ now = 1
    /\ db = EmptyDb
    /\ cdirs = {}
    /\ cfiles = {}
    /\ pc = "idle"
    /\ paths = << >>
    /\ scans = 0
    /\ edits = 0
    /\ cur = NoScan
    /\ prev = NoScan
    /\ db0 = EmptyDb
    /\ seen = {}
    /\ q = NoQuery

Init == InitWith(AllSlots)

\* a file of the tree is written, created or removed between two scans
WriteFileUpTo(limit, slot, h) ==
    /\ pc = "idle"
    /\ q = NoQuery
    /\ scans > 0
    /\ edits < limit
    /\ fs[slot] # h
    /\ fs' = [fs EXCEPT ![slot] = h]
    /\ edits' = edits + 1
    /\ UNCHANGED <<now, db, cdirs, cfiles, pc, paths, scans, cur, prev, db0, seen, q>>

WriteFile(slot, h) == WriteFileUpTo(MaxEdits, slot, h)

\* the clock moves to the next second (between scans)
Tick ==
    /\ pc = "idle"
    /\ q = NoQuery
    /\ now < MaxClock
    /\ now' = now + 1
    /\ UNCHANGED <<fs, db, cdirs, cfiles, pc, paths, scans, edits, cur, prev, db0, seen, q>>

\* main('scan', ...): loaddirs(scandir(exclude, *dirs)) up to its for loop.
\* init_database only (re)creates tables IF NOT EXISTS and the views.
ScanBegin(roots, exclude) ==
    /\ pc = "idle"
    /\ q = NoQuery
    /\ scans < MaxScans
    /\ pc' = "load"
    /\ paths' = scandir(exclude, roots, fs)
    /\ scans' = scans + 1
    /\ prev' = cur
    /\ cur' = [roots |-> roots, exclude |-> exclude, fs |-> fs]
    /\ db0' = db
    /\ UNCHANGED <<fs, now, db, cdirs, cfiles, edits, seen, q>>

\* history: the scan observed file t.fpath with digest t.csum in directory parent
Observe(S, t, parent) ==
    {o \in S : ~(o.name = t.fpath /\ o.parent = parent)}
        \cup {[name |-> t.fpath, parent |-> parent, checksum |-> t.csum]}

RECURSIVE ObserveAll(_, _, _, _)
ObserveAll(S, d, ps, ts) ==
    IF ps = << >> THEN S
    ELSE LET t == Head(ps)
         IN  ObserveAll(IF t.is_dir THEN S
                        ELSE Observe(S, t, SelectIdByPath(d.dirs, t.parent)),
                        IngestTuple(d, t, ts), Tail(ps), ts)

\* one iteration of the for loop of loaddirs; a directory insert is committed
\* at once, and that commit also publishes the file inserts pending before it
IngestStep ==
    /\ pc = "load"
    /\ q = NoQuery
    /\ paths # << >>
    /\ LET t == Head(paths)
           next == IngestTuple(db, t, now)
       IN  /\ db' = next
           /\ paths' = Tail(paths)
           /\ IF t.is_dir
              THEN /\ cdirs' = next.dirs
                   /\ cfiles' = next.files
                   /\ seen' = seen
              ELSE /\ UNCHANGED <<cdirs, cfiles>>
                   /\ seen' = Observe(seen, t, SelectIdByPath(db.dirs, t.parent))
    /\ UNCHANGED <<fs, now, pc, scans, edits, cur, prev, db0, q>>

\* the for loop is over: cur.commit() saves the pending inserts
ScanEnd ==
    /\ pc = "load"
    /\ q = NoQuery
    /\ paths = << >>
    /\ pc' = "idle"
    /\ cdirs' = db.dirs
    /\ cfiles' = db.files
    /\ UNCHANGED <<fs, now, db, paths, scans, edits, cur, prev, db0, seen, q>>

\* main('dupes', ...): finddupefiles on a connection of its own; it reads what
\* is committed, whether or not a scan is running
QueryDupeFiles(parentpath) ==
    /\ q = NoQuery
    /\ \E lf \in latest_files(cdirs, cfiles) :
          q' = [kind |-> "dupes", arg |-> parentpath,
                rows |-> finddupefiles(lf, cdirs, parentpath)]
    /\ UNCHANGED <<fs, now, db, cdirs, cfiles, pc, paths, scans, edits, cur, prev, db0, seen>>

\* main('dupedirs', ...): finddupedirs on a connection of its own
QueryDupeDirs(similarity) ==
    /\ q = NoQuery
    /\ \E lf \in latest_files(cdirs, cfiles) :
          q' = [kind |-> "dupedirs", arg |-> similarity,
                rows |-> finddupedirs(lf, cdirs, similarity)]
    /\ UNCHANGED <<fs, now, db, cdirs, cfiles, pc, paths, scans, edits, cur, prev, db0, seen>>

\* the rows have been handed to the caller (main prints them) and the query is over
QueryReturn ==
    /\ q # NoQuery
    /\ q' = NoQuery
    /\ UNCHANGED <<fs, now, db, cdirs, cfiles, pc, paths, scans, edits, cur, prev, db0, seen>>

\* loaddirs as one step: the whole scan, from init_database to the last
\* commit, run in second ts
ScanAt(limit, ts, roots, exclude) ==
    /\ pc = "idle"
    /\ q = NoQuery
    /\ scans < limit
    /\ now' = ts
    /\ LET ps == scandir(exclude, roots, fs)
           next == IngestAll(db, ps, ts)
       IN  /\ db' = next
           /\ cdirs' = next.dirs
           /\ cfiles' = next.files
           /\ seen' = ObserveAll(seen, db, ps, ts)
    /\ scans' = scans + 1
    /\ prev' = cur
    /\ cur' = [roots |-> roots, exclude |-> exclude, fs |-> fs]
    /\ db0' = db
    /\ UNCHANGED <<fs, pc, paths, edits, q>>

Scan(roots, exclude) == ScanAt(MaxScans, now, roots, exclude)

\* scans interleaved, tuple by tuple, with the queries of other connections
Next ==
    \/ \E slot \in AllSlots, h \in 0..NHash : WriteFile(slot, h)
    \/ Tick
    \/ \E roots \in RootChoices, exclude \in ExcludeChoices : ScanBegin(roots, exclude)
    \/ IngestStep
    \/ ScanEnd
    \/ QueryDupeFiles(None)
    \/ QueryReturn

Spec == Init /\ [][Next]_vars

\* scans and queries one after the other (the single-writer, single-reader use)
NextSeq ==
    \/ \E slot \in AllSlots, h \in 0..NHash : WriteFile(slot, h)
    \/ Tick
    \/ \E roots \in RootChoices, exclude \in ExcludeChoices : Scan(roots, exclude)
    \/ \E parentpath \in PrefixChoices : QueryDupeFiles(parentpath)
    \/ \E similarity \in ScoreChoices : QueryDupeDirs(similarity)
    \/ QueryReturn

SpecSeq == Init /\ [][NextSeq]_vars

\* one directory, /a, scanned again and again, each scan in a later second
\* than the one before, its files changing in between
NextDaily ==
    \/ \E slot \in {<<PA, NF>>, <<PA, NG>>}, h \in 1..NHash : WriteFileUpTo(DailyEdits, slot, h)
    \/ ScanAt(DailyScans, now + 1, <<PA>>, {})
    \/ QueryDupeFiles(None)
    \/ QueryReturn

SpecDaily == InitWith({<<PA, NF>>, <<PA, NG>>}) /\ [][NextDaily]_vars

\* ------------------------------------------------------------------ the spec's terms
\* Latest File (spec section 3): per (name, parent) with at least one version,
\* the version whose timestamp is maximal; LatestVersions is every way of
\* picking one when several share the maximal timestamp
TopVersions(F, g) ==
    LET vs == {f \in F : f.name = g[1] /\ f.parent = g[2]}
    IN  {f \in vs : \A o \in vs : o.ts <= f.ts}

LatestVersions(F) == PickOne({TopVersions(F, g) : g \in {<<f.name, f.parent>> : f \in F}})

\* x is a member of a Duplicate Group of the latest files L
Shared(L, x) == \E y \in L : y # x /\ y.checksum = x.checksum

\* the file version x lies in directory P or in a directory below P
Under(D, x, P) ==
    LET d == PathOfId(D, x.parent)
    IN  /\ d # None
        /\ \/ d = P
           \/ Len(d) > Len(P) /\ SubSeq(d, 1, Len(P) + 1) = P \o Slash

\* Directory Match (spec section 3)
MatchCount(L, p1, p2) ==
    Cardinality({x \in L : x.parent = p1 /\ \E y \in L :
                    y.parent = p2 /\ y.name = x.name /\ y.checksum = x.checksum})
TotalIn(L, p) == Cardinality({x \in L : x.parent = p})
\* max(matchcount/p1total, matchcount/p2total) > s, for s = <<n, d>> >= 0
ScoresAbove(L, p1, p2, s) ==
    \/ MatchCount(L, p1, p2) * s[2] > s[1] * TotalIn(L, p1)
    \/ MatchCount(L, p1, p2) * s[2] > s[1] * TotalIn(L, p2)
ScoresExactly(L, p1, p2, s) ==
    /\ MatchCount(L, p1, p2) >= 1
    /\ ~ScoresAbove(L, p1, p2, s)
    /\ \/ MatchCount(L, p1, p2) * s[2] = s[1] * TotalIn(L, p1)
       \/ MatchCount(L, p1, p2) * s[2] = s[1] * TotalIn(L, p2)
DirPairs(D) == {pr \in {d.id : d \in D} \X {d.id : d \in D} : pr[1] < pr[2]}

\* ------------------------------------------------------------------ claims
\* the scan that has just ended repeated the one before it: same directories,
\* same exclusions, same tree
Rescanned == pc = "idle" /\ scans >= 2 /\ cur = prev

\* C1: a second scan of an unchanged tree, with the same roots and exclusions,
\* leaves the version log with exactly the rows it had after the first scan.
C1_ScanIdempotent == Rescanned => db.files = db0.files

\* C2: for every (name, parent) with a version, latest_files shows exactly one
\* row, and its hash is the one the most recent scan to observe the file saw.
C2_LatestIsMostRecent ==
    pc = "idle" =>
        \A lf \in latest_files(cdirs, cfiles) : \A o \in seen :
            LET rows == {r \in lf : r.name = o.name /\ r.parent = o.parent}
            IN  o.parent # NULL =>
                    Cardinality(rows) = 1 /\ \A r \in rows : r.checksum = o.checksum

\* the slots whose content differs between the latest scan and the one before
ChangedSlots == {sl \in DOMAIN cur.fs : cur.fs[sl] # prev.fs[sl]}
\* the latest scan yielded the file of slot sl
Yielded(sl) ==
    \E i \in 1..Len(scandir(cur.exclude, cur.roots, cur.fs)) :
        LET t == scandir(cur.exclude, cur.roots, cur.fs)[i]
        IN  ~t.is_dir /\ t.parent = sl[1] /\ t.fpath = sl[2]

\* C3: rows of the version log stay as they are, and a re-scan that observes
\* one file with changed content adds exactly one row, for that file, and no
\* row for an unchanged file.
C3_AppendOnly ==
    /\ db0.files \subseteq db.files
    /\ (/\ pc = "idle" /\ scans >= 2
        /\ cur.roots = prev.roots /\ cur.exclude = prev.exclude
        /\ Cardinality(ChangedSlots) = 1
        /\ \A sl \in ChangedSlots : cur.fs[sl] # 0 /\ prev.fs[sl] # 0 /\ Yielded(sl))
       => /\ Cardinality(db.files \ db0.files) = 1
          /\ \A r \in db.files \ db0.files : \A sl \in ChangedSlots :
                r.name = sl[2] /\ r.checksum = cur.fs[sl]

\* C4: no two directory nodes have the same (name, parent), a NULL parent
\* included, so there is one sentinel root.
C4_DirsUnique ==
    \A d1, d2 \in db.dirs : (d1.name = d2.name /\ d1.parent = d2.parent) => d1 = d2

\* the tuple loaddirs takes next names a non-empty parent path that no
\* directory of the store has
Unresolvable ==
    /\ pc = "load" /\ paths # << >>
    /\ Head(paths).parent \notin {None, EmptyText}
    /\ SelectIdByPath(db.dirs, Head(paths).parent) = NULL

\* C5: a tuple whose non-empty parent path resolves to no directory is
\* skipped: it changes neither the directory table nor the version log.
C5_UnresolvedSkipped ==
    [][(Unresolvable /\ paths' = Tail(paths))
            => (db'.dirs = db.dirs /\ db'.files = db.files)]_vars

\* C6: finddupefiles(P) returns exactly the latest files in P or below it
\* whose hash another latest file, anywhere, shares.
C6_PrefixScoping ==
    (q.kind = "dupes" /\ q.arg # None) =>
        \E L \in LatestVersions(cfiles) :
            LET want == {x \in L : Under(cdirs, x, q.arg) /\ Shared(L, x)}
            IN  /\ {r.id : r \in q.rows} = {x.id : x \in want}
                /\ Cardinality(q.rows) = Cardinality(want)

\* C7: finddupefiles() returns exactly one row per latest file whose hash more
\* than one latest file has, and none for any other version.
C7_DuplicateGrouping ==
    (q.kind = "dupes" /\ q.arg = None) =>
        \E L \in LatestVersions(cfiles) :
            LET want == {x \in L : Shared(L, x)}
            IN  /\ {r.id : r \in q.rows} = {x.id : x \in want}
                /\ Cardinality(q.rows) = Cardinality(want)

\* C8: finddupedirs(minScore) returns exactly one row per pair of directories
\* p1 < p2 whose score max(matchcount/p1total, matchcount/p2total) is strictly
\* above minScore, with matchcount and the totals counted over the latest
\* files directly in p1 and p2.
C8_DirectoryScoring ==
    q.kind = "dupedirs" =>
        \E L \in LatestVersions(cfiles) :
            LET want == {pr \in DirPairs(cdirs) : ScoresAbove(L, pr[1], pr[2], q.arg)}
            IN  /\ {<<r.p1, r.p2>> : r \in q.rows} = want
                /\ Cardinality(q.rows) = Cardinality(want)
                /\ \A r \in q.rows :
                    /\ r.matchount = MatchCount(L, r.p1, r.p2)
                    /\ r.p1total = TotalIn(L, r.p1)
                    /\ r.p2total = TotalIn(L, r.p2)

\* a pair of directories scores exactly the threshold and the query, which
\* has just run, left it out
C8_Witness ==
    /\ q.kind = "dupedirs"
    /\ \E L \in LatestVersions(cfiles) : \E pr \in DirPairs(cdirs) :
          /\ ScoresExactly(L, pr[1], pr[2], q.arg)
          /\ \A r \in q.rows : <<r.p1, r.p2>> # pr

\* what finddupefiles(parentpath) can return on the store (D, F)
DupeFilesOn(D, F, parentpath) ==
    {finddupefiles(lf, D, parentpath) : lf \in latest_files(D, F)}

\* C9: a query that runs while loaddirs ingests a scan sees none of that scan
\* or all of it.
C9_AtomicBatch ==
    (q.kind = "dupes" /\ pc = "load") =>
        q.rows \in DupeFilesOn(db0.dirs, db0.files, q.arg)
            \cup LET end == IngestAll(db, paths, now)
                 IN  DupeFilesOn(end.dirs, end.files, q.arg)

\* C10: the materialized path tells the directory: no two directory nodes
\* have the same path.
C10_PathsUnambiguous ==
    \A d1, d2 \in db.dirs :
        PathOfId(db.dirs, d1.id) = PathOfId(db.dirs, d2.id) => d1 = d2

====
